---------------------------- MODULE Spec2Model ----------------------------
(***************************************************************************)
(* A model of the subscription loops and merges of go-concurrency-patterns.*)
(*                                                                         *)
(* One subscription is a goroutine running sub.loop (improvedsub/          *)
(* subscription.go), the goroutines it starts for s.fetcher.Fetch(), a     *)
(* caller of Close() and a receiver on Updates().  A merge owns some       *)
(* subscriptions, with one forwarding goroutine for each.                  *)
(*                                                                         *)
(* Items are identified with their GUID, the only field the loop reads.    *)
(* The loop compares GUIDs for equality only, so a fetcher is modelled up  *)
(* to renaming: the k-th identity it ever introduces is the number k (as   *)
(* fakeFetcher numbers its items "Item %d" by len(f.items)), and a fetch   *)
(* result is any sequence of earlier identities and new ones.              *)
(*                                                                         *)
(* Time is counted in seconds.  The loop reads the clock only to compare   *)
(* it with `next` (next.After(now), next.Sub(now)), so `next` is kept as   *)
(* the number of seconds from now until it: Tick lowers it, down to 0,     *)
(* where next.After(now) is false.                                         *)
(***************************************************************************)
EXTENDS Integers, Sequences, FiniteSets, TLC

\* ------------------------------------------------------------------ bounds
\* The largest identity a fetcher introduces (more than maxPending).
MaxGUID == 12
\* The longest fetch result.
MaxBatch == 2
\* The furthest time of the next attempt a fetch result asks for, in seconds.
MaxNext == 1
\* The calls of Close() made on one subscription used directly.
MaxCalls == 2
\* The largest identity the fetcher of a merged subscription introduces.
MaxMergedGUID == 2
\* The items a naive subscription has delivered when it stops fetching.
MaxNaiveReceived == 3

\* --------------------------------------------------------- program constants
\* const maxPending = 10
maxPending == 10
\* next = time.Now().Add(10 * time.Second)
Backoff == 10

\* The subscriptions that can exist, and the failures a Fetch can return.
SubIds == {1, 2}
Errors == {"e1", "e2"}
nil == "nil"
Calls == 1..MaxCalls

VARIABLES
    kind,       \* what was built: "single", "merge" (quit channel), "naive"
    subs,       \* the subscriptions that were constructed
    fetcher,    \* s.fetcher: what the Fetch capability of each can return
    pc,         \* where sub.loop is: "select", "reply", "close", "done"; and
                \* naiveSub.loop: "check", "fetch", "seterr", "send", "sleep", "done"
    pending,    \* var pending []Item
    seen,       \* var seen map[string]bool, as the set of its keys
    next,       \* var next time.Time, in seconds from now (0: not after now)
    err,        \* var err error
    fetchDone,  \* var fetchDone chan fetchResult: "nil", "empty", "full"
    fetching,   \* how many goroutines of the loop are inside Fetch()
    errc,       \* the call whose errc the loop received from s.closing (0: none)
    updates,    \* s.updates: "open" or "closed"
    closePc,    \* each call of s.Close(): "idle", "send", "recv", "returned";
                \* of naiveSub.Close: "idle", "wrote", "returned"
    closeRet,   \* what each call of s.Close() returned
    received,   \* what the receiver on s.Updates() has been handed, in order
    dups,       \* history: a fetched item was skipped as already seen
    lastFail,   \* history: the failure of the last fetch that failed
    sinceFail,  \* history: seconds since that failure was received, up to Backoff
    quit,       \* m.quit: "open" or "closed"
    mupdates,   \* m.updates: "open" or "closed"
    fpc,        \* each forwarding goroutine: "recv", "send", "closing", "done"
    it,         \* the item each forwarding goroutine holds
    out,        \* what the receiver on m.Updates() has been handed, in order
    mpc,        \* the call of m.Close(): "idle", "collect", "returned"
    mk,         \* how many iterations of the loop of m.Close() are over
    merr,       \* the result err of m.Close()
    collected,  \* history: the children's Close() results, as m.Close() got them
    panicked    \* a goroutine sent on the closed m.updates: the program is dead

subVars == <<pc, pending, seen, next, err, fetchDone, fetching, errc, updates>>
callVars == <<closePc, closeRet>>
histVars == <<dups, lastFail, sinceFail>>
builtVars == <<kind, subs, fetcher>>
fwdVars == <<fpc, it, out>>
mcloseVars == <<quit, mupdates, mpc, mk, merr, collected, panicked>>
mergeVars == <<fwdVars, mcloseVars>>
vars == <<builtVars, subVars, callVars, received, histVars, mergeVars>>

\* ------------------------------------------------------------- pure parts
Max(a, b) == IF a >= b THEN a ELSE b
Min(a, b) == IF a <= b THEN a ELSE b
MaxOf(S) == IF S = {} THEN 0 ELSE CHOOSE x \in S : \A y \in S : y <= x

\* The fetch results (their items) a fetcher f can return when the identities
\* 1..n are known: each item is the next new identity or an earlier one, and,
\* as a feed lists its latest entries, one of the f.batch latest.
Batches(f, n) ==
    UNION {
        {b \in [1..k -> Max(1, n - f.batch + 1)..Min(n + k, f.guids)] :
            \A j \in 1..k :
                b[j] <= MaxOf({n} \cup {b[h] : h \in 1..(j - 1)}) + 1}
        : k \in 0..f.batch}

\* What Fetch() returns: (items []Item, next time.Time, err error).
FetchResults(f, n) ==
    [fetched : Batches(f, n), next : 0..f.nexts, err : {nil} \cup f.errs]

\* AddItems without seen[item.GUID] = true: nothing is ever marked as seen.
RECURSIVE AddItemsNoMark(_, _, _, _)
AddItemsNoMark(p, s, fetched, k) ==
    IF k > Len(fetched) THEN [pending |-> p, seen |-> s]
    ELSE IF fetched[k] \notin s
         THEN AddItemsNoMark(Append(p, fetched[k]), s, fetched, k + 1)
         ELSE AddItemsNoMark(p, s, fetched, k + 1)

\* for _, item := range fetched { if !seen[item.GUID] { append; seen = true } }
RECURSIVE AddItems(_, _, _, _)
AddItems(p, s, fetched, k) ==
    IF k > Len(fetched) THEN [pending |-> p, seen |-> s]
    ELSE IF fetched[k] \notin s
         THEN AddItems(Append(p, fetched[k]), s \cup {fetched[k]}, fetched, k + 1)
         ELSE AddItems(p, s, fetched, k + 1)

\* if now := time.Now(); next.After(now) { fetchDelay = next.Sub(now) }
fetchDelay(i) == IF next[i] > 0 THEN next[i] ELSE 0

\* StartFetchArmed of a loop that does not look at fetchDone.
StartFetchArmedInFlight(i) == Len(pending[i]) < maxPending

\* StartFetchArmed of a loop that does not look at len(pending).
StartFetchArmedFull(i) == fetchDone[i] = "nil"

\* if fetchDone == nil && len(pending) < maxPending { startFetch = time.After(..) }
StartFetchArmed(i) == fetchDone[i] = "nil" /\ Len(pending[i]) < maxPending

\* UpdatesArmed of a loop that offers no item while a fetch is in flight.
UpdatesArmedIdle(i) == Len(pending[i]) > 0 /\ fetchDone[i] = "nil"

\* if len(pending) > 0 { first = pending[0]; updates = s.updates }
UpdatesArmed(i) == Len(pending[i]) > 0

\* ------------------------------------------------------------------- Init
BigFetcher == [guids |-> MaxGUID, batch |-> MaxBatch, nexts |-> MaxNext, errs |-> Errors]

\* Subscribe: s := &sub{...}; go s.loop(), and the loop's var declarations.
InitSubs ==
    /\ pc = [i \in SubIds |-> "select"]
    /\ pending = [i \in SubIds |-> <<>>]
    /\ seen = [i \in SubIds |-> {}]
    /\ next = [i \in SubIds |-> 0]
    /\ err = [i \in SubIds |-> nil]
    /\ fetchDone = [i \in SubIds |-> "nil"]
    /\ fetching = [i \in SubIds |-> 0]
    /\ errc = [i \in SubIds |-> 0]
    /\ updates = [i \in SubIds |-> "open"]
    /\ closePc = [i \in SubIds |-> [c \in Calls |-> "idle"]]
    /\ closeRet = [i \in SubIds |-> [c \in Calls |-> nil]]
    /\ received = [i \in SubIds |-> <<>>]
    /\ dups = [i \in SubIds |-> FALSE]
    /\ lastFail = [i \in SubIds |-> nil]
    /\ sinceFail = [i \in SubIds |-> Backoff]

\* m := &merge{...} / &naiveMerge{subs: subs, updates: make(chan Item)}, with
\* the forwarding goroutines started and Close() not called.
InitMerge ==
    /\ quit = "open"
    /\ mupdates = "open"
    /\ fpc = [i \in SubIds |-> "recv"]
    /\ it = [i \in SubIds |-> 0]
    /\ out = <<>>
    /\ mpc = "idle"
    /\ mk = 0
    /\ merr = nil
    /\ collected = <<>>
    /\ panicked = FALSE

\* One subscription, used directly by its caller.
Init ==
    /\ kind = "single"
    /\ subs = {1}
    /\ fetcher = [i \in SubIds |-> BigFetcher]
    /\ InitSubs
    /\ InitMerge

\* ------------------------------------------------------------ sub.loop
\* LoopClosing of a loop that, like naiveSub.loop, does not look at the close
\* request while it has an item to send.
LoopClosingIdle(i) ==
    /\ pc[i] = "select"
    /\ ~UpdatesArmed(i)
    /\ \E c \in Calls :
        /\ closePc[i][c] = "send"
        /\ errc' = [errc EXCEPT ![i] = c]
        /\ closePc' = [closePc EXCEPT ![i][c] = "recv"]
    /\ pc' = [pc EXCEPT ![i] = "reply"]
    /\ UNCHANGED <<pending, seen, next, err, fetchDone, fetching, updates>>
    /\ UNCHANGED <<builtVars, mergeVars, closeRet, received, histVars>>

\* LoopClosing of a loop that goes on serving s.closing after it has returned.
LoopClosingAgain(i) ==
    /\ pc[i] \in {"select", "done"}
    /\ \E c \in Calls :
        /\ closePc[i][c] = "send"
        /\ errc' = [errc EXCEPT ![i] = c]
        /\ closePc' = [closePc EXCEPT ![i][c] = "recv"]
    /\ pc' = [pc EXCEPT ![i] = "reply"]
    /\ UNCHANGED <<pending, seen, next, err, fetchDone, fetching, updates>>
    /\ UNCHANGED <<builtVars, mergeVars, closeRet, received, histVars>>

\* case errc := <-s.closing: some call c is blocked in s.closing <- errc.
LoopClosing(i) ==
    /\ pc[i] = "select"
    /\ \E c \in Calls :
        /\ closePc[i][c] = "send"
        /\ errc' = [errc EXCEPT ![i] = c]
        /\ closePc' = [closePc EXCEPT ![i][c] = "recv"]
    /\ pc' = [pc EXCEPT ![i] = "reply"]
    /\ UNCHANGED <<pending, seen, next, err, fetchDone, fetching, updates>>
    /\ UNCHANGED <<builtVars, mergeVars, closeRet, received, histVars>>

\* LoopReply of a loop that answers the request and goes on selecting.
LoopReplyNoReturn(i) ==
    /\ pc[i] = "reply"
    /\ errc[i] \in Calls
    /\ closePc[i][errc[i]] = "recv"
    /\ closeRet' = [closeRet EXCEPT ![i][errc[i]] = err[i]]
    /\ closePc' = [closePc EXCEPT ![i][errc[i]] = "returned"]
    /\ pc' = [pc EXCEPT ![i] = "select"]
    /\ UNCHANGED <<pending, seen, next, err, fetchDone, fetching, errc, updates>>
    /\ UNCHANGED <<builtVars, mergeVars, received, histVars>>

\* errc <- err, received by the caller's return <-errc.
LoopReply(i) ==
    /\ pc[i] = "reply"
    /\ errc[i] \in Calls
    /\ closePc[i][errc[i]] = "recv"
    /\ closeRet' = [closeRet EXCEPT ![i][errc[i]] = err[i]]
    /\ closePc' = [closePc EXCEPT ![i][errc[i]] = "returned"]
    /\ pc' = [pc EXCEPT ![i] = "close"]
    /\ UNCHANGED <<pending, seen, next, err, fetchDone, fetching, errc, updates>>
    /\ UNCHANGED <<builtVars, mergeVars, received, histVars>>

\* close(s.updates); return
LoopCloseUpdates(i) ==
    /\ pc[i] = "close"
    /\ updates' = [updates EXCEPT ![i] = "closed"]
    /\ pc' = [pc EXCEPT ![i] = "done"]
    /\ UNCHANGED <<pending, seen, next, err, fetchDone, fetching, errc>>
    /\ UNCHANGED <<builtVars, mergeVars, callVars, received, histVars>>

\* LoopStartFetch of a loop that, like the sub.loop of subscription.go, calls
\* Fetch() itself and is inside it until it returns.
LoopStartFetchInline(i) ==
    /\ pc[i] = "select"
    /\ StartFetchArmed(i)
    /\ fetchDelay(i) = 0
    /\ fetchDone' = [fetchDone EXCEPT ![i] = "empty"]
    /\ fetching' = [fetching EXCEPT ![i] = @ + 1]
    /\ pc' = [pc EXCEPT ![i] = "fetch"]
    /\ UNCHANGED <<pending, seen, next, err, errc, updates>>
    /\ UNCHANGED <<builtVars, mergeVars, callVars, received, histVars>>

\* case <-startFetch: fetchDone = make(chan fetchResult, 1); go func() {...}()
LoopStartFetch(i) ==
    /\ pc[i] = "select"
    /\ StartFetchArmed(i)
    /\ fetchDelay(i) = 0
    /\ fetchDone' = [fetchDone EXCEPT ![i] = "empty"]
    /\ fetching' = [fetching EXCEPT ![i] = @ + 1]
    /\ UNCHANGED <<pc, pending, seen, next, err, errc, updates>>
    /\ UNCHANGED <<builtVars, mergeVars, callVars, received, histVars>>

\* FetchReturn into a fetchDone made without a buffer: the send waits for the
\* loop to be in its select.
FetchReturnUnbuffered(i) ==
    /\ fetching[i] > 0
    /\ fetchDone[i] = "empty"
    /\ pc[i] = "select"
    /\ fetchDone' = [fetchDone EXCEPT ![i] = "full"]
    /\ fetching' = [fetching EXCEPT ![i] = @ - 1]
    /\ UNCHANGED <<pc, pending, seen, next, err, errc, updates>>
    /\ UNCHANGED <<builtVars, mergeVars, callVars, received, histVars>>

\* The goroutine: s.fetcher.Fetch() returns and fetchDone <- fetchResult{...}
\* puts the result in the channel's buffer of one; it blocks while that is
\* full.  Nothing reads the buffered result before the loop receives it, so
\* its content is drawn there.
FetchReturn(i) ==
    /\ fetching[i] > 0
    /\ fetchDone[i] = "empty"
    /\ fetchDone' = [fetchDone EXCEPT ![i] = "full"]
    /\ fetching' = [fetching EXCEPT ![i] = @ - 1]
    /\ UNCHANGED <<pc, pending, seen, next, err, errc, updates>>
    /\ UNCHANGED <<builtVars, mergeVars, callVars, received, histVars>>

\* What the history variables record of a received result r, for a
\* subscription that is used directly.
Record(i, r) ==
    IF kind = "single"
    THEN /\ dups' = [dups EXCEPT ![i] =
                  @ \/ (r.err = nil /\ \E k \in 1..Len(r.fetched) :
                          \/ r.fetched[k] \in seen[i]
                          \/ \E h \in 1..(k - 1) : r.fetched[h] = r.fetched[k])]
         /\ lastFail' = [lastFail EXCEPT ![i] = IF r.err # nil THEN r.err ELSE @]
         /\ sinceFail' = [sinceFail EXCEPT ![i] = IF r.err # nil THEN 0 ELSE @]
    ELSE UNCHANGED histVars

\* FetchDoneResult of a loop that keeps the next a failed result carried.
FetchDoneResultNoBackoff(i, r) ==
    /\ fetchDone' = [fetchDone EXCEPT ![i] = "nil"]
    /\ err' = [err EXCEPT ![i] = r.err]
    /\ next' = [next EXCEPT ![i] = r.next]
    /\ IF r.err # nil
       THEN UNCHANGED <<pending, seen>>
       ELSE LET a == AddItems(pending[i], seen[i], r.fetched, 1) IN
            /\ pending' = [pending EXCEPT ![i] = a.pending]
            /\ seen' = [seen EXCEPT ![i] = a.seen]

\* FetchDoneResult of a loop without the break: the items of a failed result
\* are appended like those of any other.
FetchDoneResultNoBreak(i, r) ==
    LET a == AddItems(pending[i], seen[i], r.fetched, 1) IN
    /\ fetchDone' = [fetchDone EXCEPT ![i] = "nil"]
    /\ err' = [err EXCEPT ![i] = r.err]
    /\ next' = [next EXCEPT ![i] = IF r.err # nil THEN Backoff ELSE r.next]
    /\ pending' = [pending EXCEPT ![i] = a.pending]
    /\ seen' = [seen EXCEPT ![i] = a.seen]

\* The body of case result := <-fetchDone, for the result r.
FetchDoneResult(i, r) ==
    /\ fetchDone' = [fetchDone EXCEPT ![i] = "nil"]
    /\ err' = [err EXCEPT ![i] = r.err]
    /\ IF r.err # nil
       THEN /\ next' = [next EXCEPT ![i] = Backoff]
            /\ UNCHANGED <<pending, seen>>
       ELSE LET a == AddItems(pending[i], seen[i], r.fetched, 1) IN
            /\ next' = [next EXCEPT ![i] = r.next]
            /\ pending' = [pending EXCEPT ![i] = a.pending]
            /\ seen' = [seen EXCEPT ![i] = a.seen]

\* case result := <-fetchDone
LoopFetchDone(i) ==
    /\ pc[i] = "select"
    /\ fetchDone[i] = "full"
    /\ \E r \in FetchResults(fetcher[i], MaxOf(seen[i])) :
        FetchDoneResult(i, r) /\ Record(i, r)
    /\ UNCHANGED <<pc, fetching, errc, updates>>
    /\ UNCHANGED <<builtVars, mergeVars, callVars, received>>

\* SendFirst of a loop that forgets the identity of the item it has sent.
SendFirstForget(i) ==
    /\ pc[i] = "select"
    /\ UpdatesArmed(i)
    /\ pending' = [pending EXCEPT ![i] = Tail(@)]
    /\ seen' = [seen EXCEPT ![i] = @ \ {pending[i][1]}]
    /\ UNCHANGED <<pc, next, err, fetchDone, fetching, errc, updates>>

\* SendFirst of a loop that drops the last item of pending, not the first.
SendFirstDropLast(i) ==
    /\ pc[i] = "select"
    /\ UpdatesArmed(i)
    /\ pending' = [pending EXCEPT ![i] = SubSeq(@, 1, Len(@) - 1)]
    /\ UNCHANGED <<pc, seen, next, err, fetchDone, fetching, errc, updates>>

\* case updates <- first: pending = pending[1:], as far as the loop goes.
SendFirst(i) ==
    /\ pc[i] = "select"
    /\ UpdatesArmed(i)
    /\ pending' = [pending EXCEPT ![i] = Tail(@)]
    /\ UNCHANGED <<pc, seen, next, err, fetchDone, fetching, errc, updates>>

\* ---------------------------------------------- the user of one subscription
\* A receive on s.Updates() takes the item the loop offers.
UserReceive(i) ==
    /\ kind = "single"
    /\ SendFirst(i)
    /\ received' = [received EXCEPT ![i] = Append(@, pending[i][1])]
    /\ UNCHANGED <<builtVars, mergeVars, callVars, histVars>>

\* s.Close(): errc := make(chan error); s.closing <- errc
CallClose(i, c) ==
    /\ kind = "single"
    /\ closePc[i][c] = "idle"
    /\ closePc' = [closePc EXCEPT ![i][c] = "send"]
    /\ UNCHANGED <<builtVars, mergeVars, subVars, closeRet, received, histVars>>

\* Time passes, up to the earliest time a loop waits for.  (What the loops do
\* in between does not depend on how much of the wait is over.)
Tick ==
    LET waits == {next[i] : i \in {j \in subs : next[j] > 0}} IN
    /\ waits # {}
    /\ \E d \in waits :
        /\ \A w \in waits : d <= w
        /\ next' = [i \in SubIds |-> Max(0, next[i] - d)]
        /\ sinceFail' = [i \in SubIds |->
                IF kind = "single" THEN Min(Backoff, sinceFail[i] + d)
                ELSE sinceFail[i]]
    /\ UNCHANGED <<pc, pending, seen, err, fetchDone, fetching, errc, updates>>
    /\ UNCHANGED <<builtVars, mergeVars, callVars, received, dups, lastFail>>

Next ==
    \/ \E i \in subs : LoopClosing(i)
    \/ \E i \in subs : LoopReply(i)
    \/ \E i \in subs : LoopCloseUpdates(i)
    \/ \E i \in subs : LoopStartFetch(i)
    \/ \E i \in subs : FetchReturn(i)
    \/ \E i \in subs : LoopFetchDone(i)
    \/ \E i \in subs : UserReceive(i)
    \/ \E i \in subs, c \in Calls : CallClose(i, c)
    \/ Tick

Spec == Init /\ [][Next]_vars

\* The scheduler runs a goroutine that can take a step, and select picks among
\* its ready cases at random: a close request that stays ready is served.
LoopFair(i) ==
    /\ WF_vars(LoopClosing(i))
    /\ WF_vars(LoopReply(i))
    /\ WF_vars(LoopCloseUpdates(i))

FairSpec == Spec /\ \A i \in SubIds : LoopFair(i)

\* A receiver that keeps receiving from Updates(): select picks at random
\* among its ready cases, so a send that stays ready is taken.  Nothing is
\* assumed of the fetcher, the timer or the other cases.
FairReceiveSpec == Spec /\ \A i \in SubIds : WF_vars(UserReceive(i))

\* The same, with fetchers whose Fetch() returns.
FairFetchSpec == FairSpec /\ \A i \in SubIds : WF_vars(FetchReturn(i))


\* ------------------------------------------------------------------ merges
\* The fetcher of a merged subscription: one item at a time, its own failure.
SmallFetcher(i) ==
    [guids |-> MaxMergedGUID, batch |-> 1, nexts |-> 0,
     errs |-> {IF i = 1 THEN "e1" ELSE "e2"}]

\* The subscriptions m.subs, in the order of the range loops.
NumSubs == Cardinality(subs)

\* Merge(subs...) of none, one or two subscriptions.
MergeInit ==
    /\ kind = "merge"
    /\ subs \in {{}, {1}, {1, 2}}
    /\ fetcher = [i \in SubIds |-> SmallFetcher(i)]
    /\ InitSubs
    /\ InitMerge

\* NaiveMerge(subs...) of none, one or two subscriptions.
NaiveInit ==
    /\ kind = "naive"
    /\ subs \in {{}, {1}, {1, 2}}
    /\ fetcher = [i \in SubIds |-> SmallFetcher(i)]
    /\ InitSubs
    /\ InitMerge

\* case it = <-s.Updates() / for it := range s.Updates(): the loop hands its
\* first item over; or s.updates is closed, and the range loop of NaiveMerge
\* ends the goroutine, while the select of Merge gets the zero Item.
FwdReceive(i) ==
    /\ fpc[i] = "recv"
    /\ IF updates[i] = "closed"
       THEN /\ IF kind = "naive"
               THEN fpc' = [fpc EXCEPT ![i] = "done"] /\ UNCHANGED it
               ELSE fpc' = [fpc EXCEPT ![i] = "send"] /\ it' = [it EXCEPT ![i] = 0]
            /\ UNCHANGED <<subVars, received>>
       ELSE /\ SendFirst(i)
            /\ received' = [received EXCEPT ![i] = Append(@, pending[i][1])]
            /\ it' = [it EXCEPT ![i] = pending[i][1]]
            /\ fpc' = [fpc EXCEPT ![i] = "send"]
    /\ UNCHANGED <<builtVars, callVars, histVars, out, mcloseVars>>

\* FwdSend of a goroutine that does not go back to its receive after the send.
FwdSendAgain(i) ==
    /\ fpc[i] = "send"
    /\ IF mupdates = "closed"
       THEN panicked' = TRUE /\ UNCHANGED <<fpc, out>>
       ELSE /\ out' = Append(out, <<i, it[i]>>)
            /\ UNCHANGED <<fpc, panicked>>
    /\ UNCHANGED <<builtVars, subVars, callVars, received, histVars, it>>
    /\ UNCHANGED <<quit, mupdates, mpc, mk, merr, collected>>

\* case m.updates <- it / m.updates <- it: a receive on m.Updates() takes the
\* item; or m.updates is closed, and the send panics.
FwdSend(i) ==
    /\ fpc[i] = "send"
    /\ IF mupdates = "closed"
       THEN panicked' = TRUE /\ UNCHANGED <<fpc, out>>
       ELSE /\ out' = Append(out, <<i, it[i]>>)
            /\ fpc' = [fpc EXCEPT ![i] = "recv"]
            /\ UNCHANGED panicked
    /\ UNCHANGED <<builtVars, subVars, callVars, received, histVars, it>>
    /\ UNCHANGED <<quit, mupdates, mpc, mk, merr, collected>>

\* FwdQuit of a goroutine whose second select has no case <-m.quit, like the
\* plain m.updates <- it of NaiveMerge.
FwdQuitFirstSelect(i) ==
    /\ kind = "merge"
    /\ fpc[i] = "recv"
    /\ quit = "closed"
    /\ fpc' = [fpc EXCEPT ![i] = "closing"]
    /\ closePc' = [closePc EXCEPT ![i][1] = "send"]
    /\ UNCHANGED <<builtVars, subVars, closeRet, received, histVars, it, out, mcloseVars>>

\* case <-m.quit: of either select: the goroutine enters s.Close().
FwdQuit(i) ==
    /\ kind = "merge"
    /\ fpc[i] \in {"recv", "send"}
    /\ quit = "closed"
    /\ fpc' = [fpc EXCEPT ![i] = "closing"]
    /\ closePc' = [closePc EXCEPT ![i][1] = "send"]
    /\ UNCHANGED <<builtVars, subVars, closeRet, received, histVars, it, out, mcloseVars>>

\* merge.Close: close(m.quit)
MergeCloseQuit ==
    /\ kind = "merge"
    /\ mpc = "idle"
    /\ quit' = "closed"
    /\ mpc' = "collect"
    /\ UNCHANGED <<builtVars, subVars, callVars, received, histVars, fwdVars>>
    /\ UNCHANGED <<mupdates, mk, merr, collected, panicked>>

\* if e := <-m.errs; e != nil { err = e }, with the m.errs <- s.Close() of a
\* forwarding goroutine whose s.Close() has returned; the goroutine returns.
\* (The README does not show how m.errs is made; it is taken unbuffered.)
MergeCollect(i) ==
    /\ kind = "merge"
    /\ mpc = "collect"
    /\ mk < NumSubs
    /\ fpc[i] = "closing"
    /\ closePc[i][1] = "returned"
    /\ merr' = IF closeRet[i][1] # nil THEN closeRet[i][1] ELSE merr
    /\ collected' = Append(collected, closeRet[i][1])
    /\ mk' = mk + 1
    /\ fpc' = [fpc EXCEPT ![i] = "done"]
    /\ UNCHANGED <<builtVars, subVars, callVars, received, histVars, it, out>>
    /\ UNCHANGED <<quit, mupdates, mpc, panicked>>

\* MergeCloseUpdates of a loop that runs one iteration short.
MergeCloseUpdatesEarly ==
    /\ kind = "merge"
    /\ mpc = "collect"
    /\ mk >= NumSubs - 1
    /\ mupdates' = "closed"
    /\ mpc' = "returned"
    /\ UNCHANGED <<builtVars, subVars, callVars, received, histVars, fwdVars>>
    /\ UNCHANGED <<quit, mk, merr, collected, panicked>>

\* merge.Close, after the loop: close(m.updates); return
MergeCloseUpdates ==
    /\ kind = "merge"
    /\ mpc = "collect"
    /\ mk = NumSubs
    /\ mupdates' = "closed"
    /\ mpc' = "returned"
    /\ UNCHANGED <<builtVars, subVars, callVars, received, histVars, fwdVars>>
    /\ UNCHANGED <<quit, mk, merr, collected, panicked>>

\* naiveMerge.Close is called.
NaiveCloseEnter ==
    /\ kind = "naive"
    /\ mpc = "idle"
    /\ mpc' = "collect"
    /\ UNCHANGED <<builtVars, subVars, callVars, received, histVars, fwdVars>>
    /\ UNCHANGED <<quit, mupdates, mk, merr, collected, panicked>>

\* for _, sub := range m.subs { ... sub.Close() is entered.
NaiveCloseSub ==
    /\ kind = "naive"
    /\ mpc = "collect"
    /\ mk < NumSubs
    /\ closePc[mk + 1][1] = "idle"
    /\ closePc' = [closePc EXCEPT ![mk + 1][1] = "send"]
    /\ UNCHANGED <<builtVars, subVars, closeRet, received, histVars, mergeVars>>

\* if e := sub.Close(); err == nil && e != nil { err = e }
NaiveCloseGot ==
    /\ kind = "naive"
    /\ mpc = "collect"
    /\ mk < NumSubs
    /\ closePc[mk + 1][1] = "returned"
    /\ merr' = IF merr = nil /\ closeRet[mk + 1][1] # nil
                 THEN closeRet[mk + 1][1] ELSE merr
    /\ collected' = Append(collected, closeRet[mk + 1][1])
    /\ mk' = mk + 1
    /\ UNCHANGED <<builtVars, subVars, callVars, received, histVars, fwdVars>>
    /\ UNCHANGED <<quit, mupdates, mpc, panicked>>

\* NaiveCloseUpdates of a Close() that waits until the forwarding goroutines
\* have returned.
NaiveCloseUpdatesWaits ==
    /\ kind = "naive"
    /\ mpc = "collect"
    /\ mk = NumSubs
    /\ \A i \in subs : fpc[i] = "done"
    /\ mupdates' = "closed"
    /\ mpc' = "returned"
    /\ UNCHANGED <<builtVars, subVars, callVars, received, histVars, fwdVars>>
    /\ UNCHANGED <<quit, mk, merr, collected, panicked>>

\* naiveMerge.Close, after the loop: close(m.updates); return
NaiveCloseUpdates ==
    /\ kind = "naive"
    /\ mpc = "collect"
    /\ mk = NumSubs
    /\ mupdates' = "closed"
    /\ mpc' = "returned"
    /\ UNCHANGED <<builtVars, subVars, callVars, received, histVars, fwdVars>>
    /\ UNCHANGED <<quit, mk, merr, collected, panicked>>

\* A panic ends the program: no goroutine takes a step after it.
Alive == IF panicked THEN {} ELSE subs

MergeNext ==
    \/ \E i \in Alive : LoopClosing(i)
    \/ \E i \in Alive : LoopReply(i)
    \/ \E i \in Alive : LoopCloseUpdates(i)
    \/ \E i \in Alive : LoopStartFetch(i)
    \/ \E i \in Alive : FetchReturn(i)
    \/ \E i \in Alive : LoopFetchDone(i)
    \/ ~panicked /\ Tick
    \/ \E i \in Alive : FwdReceive(i)
    \/ \E i \in Alive : FwdSend(i)
    \/ \E i \in Alive : FwdQuit(i)
    \/ ~panicked /\ MergeCloseQuit
    \/ \E i \in Alive : MergeCollect(i)
    \/ ~panicked /\ MergeCloseUpdates

SpecMerge == MergeInit /\ [][MergeNext]_vars

\* The goroutines of a merge that can take a step do: a forwarding goroutine
\* whose case <-m.quit is ready takes it, and m.Close() goes on.
MergeFair ==
    /\ \A i \in SubIds : LoopFair(i)
    /\ \A i \in SubIds : WF_vars(FwdQuit(i)) /\ WF_vars(MergeCollect(i))
    /\ WF_vars(MergeCloseUpdates)

FairMerge == SpecMerge /\ MergeFair

NaiveNext ==
    \/ \E i \in Alive : LoopClosing(i)
    \/ \E i \in Alive : LoopReply(i)
    \/ \E i \in Alive : LoopCloseUpdates(i)
    \/ \E i \in Alive : LoopStartFetch(i)
    \/ \E i \in Alive : FetchReturn(i)
    \/ \E i \in Alive : LoopFetchDone(i)
    \/ ~panicked /\ Tick
    \/ \E i \in Alive : FwdReceive(i)
    \/ \E i \in Alive : FwdSend(i)
    \/ ~panicked /\ NaiveCloseEnter
    \/ ~panicked /\ NaiveCloseSub
    \/ ~panicked /\ NaiveCloseGot
    \/ ~panicked /\ NaiveCloseUpdates

SpecNaive == NaiveInit /\ [][NaiveNext]_vars

\* ------------------------------------------------------------ naiveSub
\* NaiveSubscribe(fetcher): s := &naiveSub{...}; go s.loop().  The fields
\* s.err and s.updates are err and updates; pending holds the items of the
\* range loop that are still to be sent, seen the identities the fetcher has
\* introduced, and lastFail the err that Fetch() returned to the loop.
NaiveSubInit ==
    /\ kind = "naivesub"
    /\ subs = {1}
    /\ fetcher = [i \in SubIds |-> BigFetcher]
    /\ pc = [i \in SubIds |-> "check"]
    /\ pending = [i \in SubIds |-> <<>>]
    /\ seen = [i \in SubIds |-> {}]
    /\ next = [i \in SubIds |-> 0]
    /\ err = [i \in SubIds |-> nil]
    /\ fetchDone = [i \in SubIds |-> "nil"]
    /\ fetching = [i \in SubIds |-> 0]
    /\ errc = [i \in SubIds |-> 0]
    /\ updates = [i \in SubIds |-> "open"]
    /\ closePc = [i \in SubIds |-> [c \in Calls |-> "idle"]]
    /\ closeRet = [i \in SubIds |-> [c \in Calls |-> nil]]
    /\ received = [i \in SubIds |-> <<>>]
    /\ dups = [i \in SubIds |-> FALSE]
    /\ lastFail = [i \in SubIds |-> nil]
    /\ sinceFail = [i \in SubIds |-> Backoff]
    /\ InitMerge

\* s.closed: some call of Close() has executed s.closed = true.
closed(i) == \E c \in Calls : closePc[i][c] \in {"wrote", "returned"}

\* What the loop's read of s.closed can yield.  Nothing orders it with the
\* write of Close(), so the written value need not be the one it observes.
ClosedReads(i) == IF closed(i) THEN {TRUE, FALSE} ELSE {FALSE}

\* An error value read while it was being written.
torn == "torn"

\* What a read of s.err by Close() can yield: with the loop at its write of
\* s.err, the value before it, the value written, or a mix of the two words
\* of the interface value.
ErrReads(i) ==
    IF pc[i] = "seterr"
    THEN {err[i], lastFail[i]} \cup (IF err[i] # lastFail[i] THEN {torn} ELSE {})
    ELSE {err[i]}

\* if s.closed { close(s.updates); return }
NaiveSubCheck(i) ==
    /\ kind = "naivesub"
    /\ pc[i] = "check"
    /\ \E b \in ClosedReads(i) :
        IF b THEN /\ updates' = [updates EXCEPT ![i] = "closed"]
                  /\ pc' = [pc EXCEPT ![i] = "done"]
             ELSE /\ pc' = [pc EXCEPT ![i] = "fetch"]
                  /\ UNCHANGED updates
    /\ UNCHANGED <<pending, seen, next, err, fetchDone, fetching, errc>>
    /\ UNCHANGED <<builtVars, mergeVars, callVars, received, histVars>>

\* items, next, err := s.fetcher.Fetch() returns, to the loop that called it.
NaiveSubFetch(i) ==
    /\ kind = "naivesub"
    /\ pc[i] = "fetch"
    /\ Len(received[i]) < MaxNaiveReceived
    /\ \E r \in FetchResults(fetcher[i], MaxOf(seen[i])) :
        IF r.err # nil
        THEN /\ lastFail' = [lastFail EXCEPT ![i] = r.err]
             /\ pc' = [pc EXCEPT ![i] = "seterr"]
             /\ UNCHANGED <<pending, seen, next>>
        ELSE /\ pending' = [pending EXCEPT ![i] = r.fetched]
             /\ seen' = [seen EXCEPT ![i] = @ \cup {r.fetched[k] : k \in 1..Len(r.fetched)}]
             /\ next' = [next EXCEPT ![i] = r.next]
             /\ pc' = [pc EXCEPT ![i] = IF r.fetched = <<>> THEN "sleep" ELSE "send"]
             /\ UNCHANGED lastFail
    /\ UNCHANGED <<err, fetchDone, fetching, errc, updates>>
    /\ UNCHANGED <<builtVars, mergeVars, callVars, received, dups, sinceFail>>

\* s.err = err; time.Sleep(10 * time.Second) begins.
NaiveSubSetErr(i) ==
    /\ kind = "naivesub"
    /\ pc[i] = "seterr"
    /\ err' = [err EXCEPT ![i] = lastFail[i]]
    /\ next' = [next EXCEPT ![i] = Backoff]
    /\ pc' = [pc EXCEPT ![i] = "sleep"]
    /\ UNCHANGED <<pending, seen, fetchDone, fetching, errc, updates>>
    /\ UNCHANGED <<builtVars, mergeVars, callVars, received, histVars>>

\* NaiveSubSend of a loop that gives up its send once s.closed is set.
NaiveSubSendOrClosed(i) ==
    /\ kind = "naivesub"
    /\ pc[i] = "send"
    /\ IF closed(i)
       THEN /\ pc' = [pc EXCEPT ![i] = "check"]
            /\ UNCHANGED <<pending, received>>
       ELSE /\ received' = [received EXCEPT ![i] = Append(@, Head(pending[i]))]
            /\ pending' = [pending EXCEPT ![i] = Tail(@)]
            /\ pc' = [pc EXCEPT ![i] = IF Len(pending[i]) = 1 THEN "sleep" ELSE "send"]
    /\ UNCHANGED <<seen, next, err, fetchDone, fetching, errc, updates>>
    /\ UNCHANGED <<builtVars, mergeVars, callVars, histVars>>

\* for _, item := range items { s.updates <- item }: a receive on s.Updates()
\* takes the item; after the last one the loop goes on to its sleep.
NaiveSubSend(i) ==
    /\ kind = "naivesub"
    /\ pc[i] = "send"
    /\ received' = [received EXCEPT ![i] = Append(@, Head(pending[i]))]
    /\ pending' = [pending EXCEPT ![i] = Tail(@)]
    /\ pc' = [pc EXCEPT ![i] = IF Len(pending[i]) = 1 THEN "sleep" ELSE "send"]
    /\ UNCHANGED <<seen, next, err, fetchDone, fetching, errc, updates>>
    /\ UNCHANGED <<builtVars, mergeVars, callVars, histVars>>

\* if now := time.Now(); next.After(now) { time.Sleep(next.Sub(now)) } and
\* the end of time.Sleep(10 * time.Second): the loop starts over.
NaiveSubWake(i) ==
    /\ kind = "naivesub"
    /\ pc[i] = "sleep"
    /\ next[i] = 0
    /\ pc' = [pc EXCEPT ![i] = "check"]
    /\ UNCHANGED <<pending, seen, next, err, fetchDone, fetching, errc, updates>>
    /\ UNCHANGED <<builtVars, mergeVars, callVars, received, histVars>>

\* naiveSub.Close: s.closed = true
NaiveSubCloseWrite(i, c) ==
    /\ kind = "naivesub"
    /\ closePc[i][c] = "idle"
    /\ closePc' = [closePc EXCEPT ![i][c] = "wrote"]
    /\ UNCHANGED <<builtVars, mergeVars, subVars, closeRet, received, histVars>>

\* NaiveSubCloseRead of a Close() that waits for the loop to have returned.
NaiveSubCloseReadJoined(i, c) ==
    /\ kind = "naivesub"
    /\ closePc[i][c] = "wrote"
    /\ pc[i] = "done"
    /\ \E e \in ErrReads(i) : closeRet' = [closeRet EXCEPT ![i][c] = e]
    /\ closePc' = [closePc EXCEPT ![i][c] = "returned"]
    /\ UNCHANGED <<builtVars, mergeVars, subVars, received, histVars>>

\* naiveSub.Close: return s.err
NaiveSubCloseRead(i, c) ==
    /\ kind = "naivesub"
    /\ closePc[i][c] = "wrote"
    /\ \E e \in ErrReads(i) : closeRet' = [closeRet EXCEPT ![i][c] = e]
    /\ closePc' = [closePc EXCEPT ![i][c] = "returned"]
    /\ UNCHANGED <<builtVars, mergeVars, subVars, received, histVars>>

NaiveSubNext ==
    \/ \E i \in subs : NaiveSubCheck(i)
    \/ \E i \in subs : NaiveSubFetch(i)
    \/ \E i \in subs : NaiveSubSetErr(i)
    \/ \E i \in subs : NaiveSubSend(i)
    \/ \E i \in subs : NaiveSubWake(i)
    \/ \E i \in subs, c \in Calls : NaiveSubCloseWrite(i, c)
    \/ \E i \in subs, c \in Calls : NaiveSubCloseRead(i, c)
    \/ Tick

SpecNaiveSub == NaiveSubInit /\ [][NaiveSubNext]_vars

\* ------------------------------------------------- one subscription: claims
Returned(i) == \E c \in Calls : closePc[i][c] = "returned"

\* C1: the pending queue never holds more than maxPending items.
C1_PendingAtMostMaxPending ==
    \A i \in SubIds : Len(pending[i]) <= maxPending

\* C2: the receiver is handed each identity at most once, in the order in
\* which the identities were first seen: the k-th item it receives is the
\* k-th identity the fetcher introduced.
C2_OnceInFirstSeenOrder ==
    \A i \in SubIds : \A k \in 1..Len(received[i]) : received[i][k] = k

\* Repeated identities were fetched, and several items were received.
C2_Witness ==
    dups[1] /\ Len(received[1]) >= 3 /\ Len(pending[1]) >= 1

\* C3: a call of Close() returns and s.updates is closed, whatever the loop
\* was doing when the call was made.
C3_CloseReturnsAndStreamCloses ==
    \A i \in SubIds :
        (\E c \in Calls : closePc[i][c] = "send")
            ~> (Returned(i) /\ updates[i] = "closed")

\* Close() has returned and the stream is closed with items still pending, a
\* fetch in flight and nothing ever received.
C3_Witness ==
    /\ Returned(1) /\ updates[1] = "closed"
    /\ Len(pending[1]) >= 5 /\ fetching[1] = 1 /\ received[1] = <<>>

\* C4: once Close() has returned, no receive on Updates() obtains an item.
C4_NoItemAfterCloseReturned ==
    [][\A i \in SubIds : Returned(i) => received'[i] = received[i]]_vars

\* Close() has returned while items were pending, and the result of the
\* fetch that was in flight has arrived since.
C4_Witness ==
    /\ Returned(1) /\ pc[1] = "done"
    /\ Len(pending[1]) >= 1 /\ fetchDone[1] = "full"

\* C5: Close() returns the most recent fetch failure of the subscription's
\* lifetime, and nil only if no fetch failed.
C5_CloseReturnsLastFailure ==
    \A i \in SubIds : \A c \in Calls :
        closePc[i][c] = "returned" => closeRet[i][c] = lastFail[i]

\* A step that starts a fetch, and a step that receives a fetch result.
StartsFetch(i) == fetching'[i] > fetching[i]
ReceivesResult(i) == fetchDone[i] = "full" /\ fetchDone'[i] = "nil"

\* C11: no fetch is started less than Backoff (10) seconds after the loop has
\* received a failed result, whatever next that result carried and whatever
\* was delivered meanwhile; the failure sets the wait to exactly Backoff.
C11_NoFetchWithinBackoff ==
    [][\A i \in SubIds :
        /\ StartsFetch(i) => sinceFail[i] >= Backoff
        /\ (ReceivesResult(i) /\ err'[i] # nil) => next'[i] = Backoff]_vars

\* A fetch was started Backoff seconds after the failure e2 was received, by
\* a loop that has delivered items.
C11_Witness ==
    /\ kind = "single" /\ fetching[1] = 1 /\ err[1] = "e2" /\ lastFail[1] = "e2"
    /\ sinceFail[1] = Backoff /\ Len(received[1]) >= 1

\* C12: the step that receives a failed result changes neither the pending
\* queue nor the seen set nor the stream, and leaves the loop in its select,
\* with the result consumed.
C12_FailureLeavesQueueAndLoop ==
    [][\A i \in SubIds : (ReceivesResult(i) /\ err'[i] # nil) =>
        /\ pending'[i] = pending[i] /\ seen'[i] = seen[i]
        /\ received'[i] = received[i] /\ updates'[i] = updates[i]
        /\ pc[i] = "select" /\ pc'[i] = "select"]_vars

\* After a failure the loop has delivered an item and started a fetch again,
\* the failure still being the last error.
C12_Witness ==
    /\ kind = "single" /\ err[1] # nil /\ fetchDone[1] = "empty" /\ pc[1] = "select"
    /\ Len(received[1]) >= 1 /\ Len(pending[1]) >= 1

\* C13: at most one fetch is in flight: a goroutine is inside Fetch() only
\* while fetchDone is the empty channel it was started with, there is never
\* more than one, and none is started before the loop has received the
\* result of the one before.
C13_OneFetchInFlight ==
    \A i \in SubIds :
        /\ fetching[i] <= 1
        /\ fetching[i] = 1 => fetchDone[i] = "empty"
        /\ fetchDone[i] = "nil" => fetching[i] = 0

\* A fetch is in flight, started after the result of an earlier one was
\* received, with a close request waiting.
C13_Witness ==
    /\ kind = "single" /\ fetching[1] = 1 /\ seen[1] # {} /\ lastFail[1] # nil
    /\ closePc[1][1] = "send"

\* C14: once Close() has returned, the loop ends and the goroutine of a fetch
\* that was in flight ends: its send finds room in the buffer of fetchDone,
\* which nothing receives from any more.
C14_NoTaskAfterClose ==
    /\ \A i \in SubIds : Returned(i) ~> (pc[i] = "done" /\ fetching[i] = 0)
    /\ [](\A i \in SubIds : Returned(i) =>
            /\ pc[i] \in {"close", "done"}
            /\ fetching[i] > 0 => fetchDone[i] = "empty")

\* Everything has ended although 5 items were pending, nothing was ever
\* received and the result of the fetch in flight was left in fetchDone.
C14_Witness ==
    /\ kind = "single" /\ Returned(1) /\ pc[1] = "done" /\ fetching[1] = 0
    /\ fetchDone[1] = "full" /\ Len(pending[1]) >= 5 /\ received[1] = <<>>

\* C15: a fetch is started only when none is in flight, pending holds fewer
\* than maxPending items and the time of the next attempt has come; so none
\* is started while pending is full.
C15_FetchOnlyWithRoom ==
    [][\A i \in SubIds : StartsFetch(i) =>
        /\ fetchDone[i] = "nil" /\ fetching[i] = 0
        /\ Len(pending[i]) < maxPending
        /\ next[i] = 0]_vars

\* A fetch is in flight again after pending was full (maxPending identities
\* were seen before anything was received) and a delivery made room.
C15_Witness ==
    /\ kind = "single" /\ fetching[1] = 1 /\ Len(pending[1]) = maxPending - 1
    /\ Len(received[1]) = 1 /\ Cardinality(seen[1]) = maxPending

\* C16: a receive on Updates() happens only with pending not empty, obtains
\* the first item of pending and removes just that one: what was received
\* followed by what is pending is always what was enqueued, in that order.
C16_HeadIsDeliveredAndPopped ==
    [][\A i \in SubIds :
        /\ received'[i] # received[i] =>
            /\ pending[i] # <<>>
            /\ received'[i] = Append(received[i], Head(pending[i]))
            /\ pending'[i] = Tail(pending[i])
        /\ (kind = "single" /\ i \in subs) =>
            received'[i] \o pending'[i] = [k \in 1..Cardinality(seen'[i]) |-> k]]_vars

\* Several items were received while several were pending.
C16_Witness ==
    kind = "single" /\ Len(received[1]) >= 2 /\ Len(pending[1]) >= 3

\* C17: while a fetch is in flight the loop is in its select, unless it is
\* ending: there a waiting close request can be taken, and a receiver can
\* take the first pending item.
C17_FetchDoesNotBlockLoop ==
    \A i \in subs : (kind = "single" /\ fetching[i] > 0) =>
        /\ pc[i] = "select" \/ Returned(i) \/ errc[i] # 0
        /\ (pc[i] = "select" /\ \E c \in Calls : closePc[i][c] = "send")
                => ENABLED LoopClosing(i)
        /\ (pc[i] = "select" /\ pending[i] # <<>>) => ENABLED UserReceive(i)

\* With a fetch still in flight, the loop has delivered an item and has then
\* taken a close request.
C17_Witness ==
    /\ kind = "single" /\ fetching[1] = 1 /\ pc[1] = "reply"
    /\ Len(received[1]) = 1 /\ Cardinality(seen[1]) = 1

\* -------------------------------------------------------------- merge: claims
\* What the merged stream has emitted of subscription i, in order.
Emitted(i) ==
    LET q == SelectSeq(out, LAMBDA e : e[1] = i) IN [k \in 1..Len(q) |-> q[k][2]]

IsPrefix(p, q) == Len(p) <= Len(q) /\ \A k \in 1..Len(p) : p[k] = q[k]

FirstNonNil(q) ==
    IF \E k \in 1..Len(q) : q[k] # nil
    THEN q[CHOOSE k \in 1..Len(q) : q[k] # nil /\ \A h \in 1..(k - 1) : q[h] = nil]
    ELSE nil

Stopped(i) == fpc[i] \in {"closing", "done"}

\* C6: m.updates is closed only once every forwarding goroutine has returned,
\* no send meets the closed m.updates, and a goroutine that has taken
\* case <-m.quit neither sends on m.updates nor goes back to its selects.
C6_ClosedAfterForwardersExit ==
    [][/\ mupdates' = "closed" => \A i \in subs : fpc'[i] = "done"
       /\ ~panicked'
       /\ \A i \in subs : Stopped(i) => Stopped(i)' /\ Emitted(i)' = Emitted(i)]_vars

\* m.Close() has closed m.updates after two forwarding goroutines were stopped,
\* one of them while it was blocked sending an item.
C6_Witness ==
    /\ kind = "merge" /\ subs = {1, 2} /\ mupdates = "closed"
    /\ out # <<>> /\ Len(Emitted(1)) < Len(received[1])

\* C7: m.Close() returns, and when it has, every child has been closed by
\* exactly one call of its Close(), its loop has left its select, and every
\* forwarding goroutine has returned.
C7_MergeCloseTerminates ==
    /\ (mpc = "collect") ~> (mpc = "returned")
    /\ [](mpc = "returned" =>
            \A i \in subs :
                /\ fpc[i] = "done"
                /\ pc[i] \in {"close", "done"}
                /\ {c \in Calls : closePc[i][c] # "idle"} = {1}
                /\ closePc[i][1] = "returned")

\* m.Close() has returned although nothing was ever received from m.Updates()
\* and both forwarding goroutines held an item, with more items pending.
C7_Witness ==
    /\ kind = "merge" /\ subs = {1, 2} /\ mpc = "returned" /\ out = <<>>
    /\ \A i \in subs : Len(received[i]) = 1 /\ Len(pending[i]) >= 1

\* C8: m.Close() returns the first non-nil error among the children's Close()
\* results, in the order in which it collects them.
C8_FirstErrorWins ==
    (kind = "merge" /\ mpc = "returned") => merr = FirstNonNil(collected)

\* C9: whenever a forwarding goroutine holds no item, the merged stream has
\* emitted, of its child, exactly what the child delivered, in the same order.
C9_MergedIsExactlyDelivered ==
    \A i \in subs : fpc[i] # "send" => Emitted(i) = received[i]

\* C9 as amended: of each child, the merged stream has emitted a prefix of
\* what the child delivered, all of it but at most the last item; that item
\* is held by the forwarding goroutine, or was dropped when it took
\* case <-m.quit.
C9_MergedIsPrefixOfDelivered ==
    \A i \in SubIds :
        /\ IsPrefix(Emitted(i), received[i])
        /\ Len(received[i]) <= Len(Emitted(i)) + 1
        /\ fpc[i] = "recv" => Emitted(i) = received[i]
        /\ fpc[i] = "send" => received[i] = Append(Emitted(i), it[i])
        /\ out # <<>> => out[Len(out)][1] \in subs

\* The merged stream interleaves the items of two children, and a forwarding
\* goroutine has dropped the item it held.
C9_Witness ==
    /\ kind = "merge" /\ mpc = "returned"
    /\ Len(Emitted(1)) >= 1 /\ Len(Emitted(2)) >= 2 /\ out[1][1] = 2 /\ out[2][1] = 1
    /\ Len(received[1]) = Len(Emitted(1)) + 1

\* C10: the stream of a merge of no subscriptions is closed from the start.
C10_EmptyMergeExhausted ==
    subs = {} => mupdates = "closed"

\* C18: naiveMerge.Close closes m.updates as soon as the children's Close()
\* have returned, whatever the forwarding goroutines are doing; a goroutine
\* that holds an item then sends on the closed channel, and that is the only
\* way the program panics.
C18_NaiveCloseDoesNotWait ==
    /\ (kind = "naive" /\ mpc = "collect" /\ mk = NumSubs /\ ~panicked)
            => ENABLED NaiveCloseUpdates
    /\ panicked =>
            /\ kind = "naive" /\ mupdates = "closed" /\ mpc = "returned"
            /\ \E i \in subs : fpc[i] = "send" /\ closePc[i][1] = "returned"

\* A forwarding goroutine that was blocked sending an item when Close()
\* closed m.updates has sent on the closed channel; the other had returned.
C18_Witness ==
    /\ kind = "naive" /\ subs = {1, 2} /\ panicked
    /\ fpc[1] = "send" /\ it[1] = 2 /\ fpc[2] = "done"

\* C21: once the loop has taken a close request it never receives from
\* s.closing again: any other call of Close(), made before or after the loop
\* returned, stays blocked in s.closing <- errc and returns nothing, and making
\* it changes nothing of the subscription.
C21_SecondCloseBlocksForever ==
    [][\A i \in subs : \A c \in Calls : kind = "single" =>
        /\ (pc[i] # "select" /\ closePc[i][c] = "send") =>
                closePc'[i][c] = "send" /\ closeRet'[i][c] = nil
        /\ pc[i] # "select" => pc'[i] # "select"
        /\ (closePc[i][c] = "idle" /\ closePc'[i][c] # "idle") =>
                /\ closePc'[i][c] = "send"
                /\ UNCHANGED <<subVars, closeRet, received>>]_vars

\* The first call of Close() has returned and the loop has returned; the
\* second call is blocked sending on s.closing.
C21_Witness ==
    /\ kind = "single" /\ closePc[1][1] = "returned" /\ pc[1] = "done"
    /\ updates[1] = "closed" /\ closePc[1][2] = "send"

InSeq(k, q) == \E h \in 1..Len(q) : q[h] = k
CloseCalled(i) == \E c \in Calls : closePc[i][c] # "idle"

\* C22: with a receiver that keeps receiving, every item that is in pending
\* is received, unless Close() is called; whatever the fetches do meanwhile.
C22_PendingIsEventuallyDelivered ==
    \A k \in 1..MaxGUID :
        InSeq(k, pending[1]) ~> (InSeq(k, received[1]) \/ CloseCalled(1))

\* Items were received, one after a failed fetch, while more were pending and
\* a fetch was in flight, with Close() never called.
C22_Witness ==
    /\ kind = "single" /\ ~CloseCalled(1) /\ Len(received[1]) >= 2
    /\ Len(pending[1]) >= 2 /\ fetching[1] = 1 /\ err[1] # nil

\* C23: the identities of the items in pending are pairwise distinct and all
\* in seen, in every state, and no step removes an identity from seen.
C23_PendingDistinctSeenGrows ==
    [][\A i \in subs : kind = "single" =>
        /\ seen[i] \subseteq seen'[i]
        /\ \A h \in 1..Len(pending'[i]) :
            /\ pending'[i][h] \in seen'[i]
            /\ \A g \in 1..(h - 1) : pending'[i][g] # pending'[i][h]]_vars

\* Items are pending and others were received, after fetches that returned
\* identities already seen, and a fetch that failed.
C23_Witness ==
    /\ kind = "single" /\ dups[1] /\ lastFail[1] # nil
    /\ Len(pending[1]) >= 3 /\ Len(received[1]) >= 2
    /\ Cardinality(seen[1]) = Len(pending[1]) + Len(received[1])

\* ------------------------------------------------------------ naiveSub: claims
\* C19: a naiveSub.loop that is blocked in s.updates <- item stays there for
\* as long as nothing is received from Updates(), whether or not Close() was
\* called: it does not see s.closed, close s.updates or return.
C19_BlockedSendIgnoresClose ==
    [][\A i \in subs :
        (kind = "naivesub" /\ pc[i] = "send" /\ received'[i] = received[i]) =>
            /\ pc'[i] = "send" /\ pending'[i] = pending[i]
            /\ updates'[i] = "open"]_vars

\* Close() was called and has returned while the loop was blocked sending the
\* first item of its first fetch.
C19_Witness ==
    /\ kind = "naivesub" /\ pc[1] = "send" /\ received[1] = <<>>
    /\ closePc[1][1] = "returned" /\ updates[1] = "open"

\* C20: the two steps of naiveSub.Close never wait for the loop, whatever it
\* is doing, and the value Close() returns is one a read of s.err at that
\* moment can yield: the failure of a Fetch() that has not returned, or whose
\* err the loop has not stored yet, may be missing from it.
C20_CloseIsNotSynchronized ==
    /\ [](\A i \in subs : \A c \in Calls : kind = "naivesub" =>
            /\ closePc[i][c] = "idle" => ENABLED NaiveSubCloseWrite(i, c)
            /\ closePc[i][c] = "wrote" => ENABLED NaiveSubCloseRead(i, c))
    /\ [][\A i \in subs : \A c \in Calls :
            (kind = "naivesub" /\ closePc[i][c] = "wrote"
                /\ closePc'[i][c] = "returned") =>
                    closeRet'[i][c] \in ErrReads(i) /\ pc'[i] = pc[i]]_vars

\* Close() has written s.closed and is about to read s.err, which is nil,
\* while the loop is about to write the failure of its fetch to s.err.
C20_Witness ==
    /\ kind = "naivesub" /\ closePc[1][1] = "wrote" /\ pc[1] = "seterr"
    /\ err[1] = nil /\ lastFail[1] # nil

=============================================================================
